---- MODULE Spec2Model ----
(***************************************************************************)
(* The per-transaction receipt DAG tracker of the congestion model         *)
(* (tools/congestion-model/src/model/transaction.rs): one Transaction, its *)
(* four receipt buckets, and the driver that calls start, execute_receipt  *)
(* and drop_receipt on it.                                                 *)
(***************************************************************************)
EXTENDS Integers, Sequences, FiniteSets, TLC

VARIABLES
    outgoing,           \* Transaction.outgoing: ReceiptId -> Vec<ReceiptId> (partial map)
    dependencies,       \* Transaction.dependencies: reverse edge index (partial map)
    future_receipts,    \* Transaction.future_receipts: ReceiptId -> Receipt (partial map)
    pending_receipts,   \* Transaction.pending_receipts: set of ReceiptId
    dropped_receipts,   \* Transaction.dropped_receipts: ReceiptId -> Receipt (partial map)
    executed_receipts,  \* Transaction.executed_receipts: ReceiptId -> Receipt (partial map)
    queue,              \* receipt values the driver holds and has not passed back yet
    used,               \* copies of the receipt values the driver has already passed back
    activated,          \* per receipt id, how many times activate_receipt returned it
    last,               \* the last call: operation, argument, round, outcome, result
    aborted,            \* a panic has ended the run
    broken,             \* the driver has made a call that breaks the contract
    gas_total           \* sum of gas_burnt over the ExecutionResults returned so far

vars == <<outgoing, dependencies, future_receipts, pending_receipts,
          dropped_receipts, executed_receipts, queue, used, activated, last,
          aborted, broken, gas_total>>

buckets == <<future_receipts, pending_receipts, dropped_receipts, executed_receipts>>

----------------------------------------------------------------------------
(* Bounds of the model. *)

NumReceipts == 3
MaxRound == 1

ReceiptIds == 0 .. (NumReceipts - 1)
Rounds == 0 .. MaxRound

----------------------------------------------------------------------------
(* Option<Round>: None is the empty sequence, Some(r) the one-element one. *)

None == << >>
Some(r) == << r >>
is_some(o) == o # None

(* The values the outer framework supplies: the first receipt of the       *)
(* transaction, the conversion cost, and per receipt its receiver shard,   *)
(* size, attached gas and execution gas.                                   *)
initial_receipt == 0
tx_conversion_cost == 7
initial_receipt_gas == 10
receiver_of(id) == id % 2
size_of(id) == 100 + id
attached_gas_of(id) == IF id = initial_receipt THEN initial_receipt_gas ELSE 5
execution_gas_of(id) == id + 1

(* Receipt::new_future_receipt *)
new_future_receipt(id, receiver, size, attached_gas, execution_gas) ==
    [ id |-> id,
      created_at |-> None,
      dropped_at |-> None,
      executed_at |-> None,
      receiver |-> receiver,
      size |-> size,
      attached_gas |-> attached_gas,
      execution_gas |-> execution_gas ]

(* gas_burnt testing created_at in place of executed_at. *)
gas_burnt_if_created(receipt) ==
    IF is_some(receipt.created_at) THEN receipt.execution_gas ELSE 0

(* Receipt::gas_burnt *)
gas_burnt(receipt) ==
    IF is_some(receipt.executed_at) THEN receipt.execution_gas ELSE 0

----------------------------------------------------------------------------
(* HashMap and HashSet operations on partial maps. *)

contains_key(map, k) == k \in DOMAIN map
map_insert(map, k, v) == (k :> v) @@ map
map_remove(map, k) == [ x \in (DOMAIN map) \ {k} |-> map[x] ]
map_values(map) == { map[k] : k \in DOMAIN map }
EmptyMap == << >>

SeqToSet(s) == { s[k] : k \in DOMAIN s }

----------------------------------------------------------------------------
(* activate_receipt without the insertion into pending_receipts. *)
activate_receipt_no_insert(receipt_id, round, fut, pend) ==
    IF contains_key(fut, receipt_id)
    THEN LET receipt == [ fut[receipt_id] EXCEPT !.created_at = Some(round) ]
         IN  [ found |-> TRUE,
               receipt |-> << receipt >>,
               future |-> map_remove(fut, receipt_id),
               pending |-> pend ]
    ELSE [ found |-> FALSE, receipt |-> << >>, future |-> fut, pending |-> pend ]

(* activate_receipt reading future_receipts with get instead of remove. *)
activate_receipt_get(receipt_id, round, fut, pend) ==
    IF contains_key(fut, receipt_id)
    THEN LET receipt == [ fut[receipt_id] EXCEPT !.created_at = Some(round) ]
         IN  [ found |-> TRUE,
               receipt |-> << receipt >>,
               future |-> fut,
               pending |-> pend \cup { receipt.id } ]
    ELSE [ found |-> FALSE, receipt |-> << >>, future |-> fut, pending |-> pend ]

(* activate_receipt without the created_at stamp. *)
activate_receipt_no_stamp(receipt_id, round, fut, pend) ==
    IF contains_key(fut, receipt_id)
    THEN LET receipt == fut[receipt_id]
         IN  [ found |-> TRUE,
               receipt |-> << receipt >>,
               future |-> map_remove(fut, receipt_id),
               pending |-> pend \cup { receipt.id } ]
    ELSE [ found |-> FALSE, receipt |-> << >>, future |-> fut, pending |-> pend ]

(* Transaction::activate_receipt on the pair (future_receipts,             *)
(* pending_receipts): `found` is FALSE for the None of the `?`.            *)
activate_receipt(receipt_id, round, fut, pend) ==
    IF contains_key(fut, receipt_id)
    THEN LET receipt == [ fut[receipt_id] EXCEPT !.created_at = Some(round) ]
         IN  [ found |-> TRUE,
               receipt |-> << receipt >>,
               future |-> map_remove(fut, receipt_id),
               pending |-> pend \cup { receipt.id } ]
    ELSE [ found |-> FALSE, receipt |-> << >>, future |-> fut, pending |-> pend ]

(* activate_all with the activated receipts collected in reverse order. *)
RECURSIVE activate_all_reversed(_, _, _, _, _)
activate_all_reversed(ids, round, fut, pend, acc) ==
    IF ids = << >>
    THEN [ ok |-> TRUE, future |-> fut, pending |-> pend, new_receipts |-> acc ]
    ELSE LET a == activate_receipt(Head(ids), round, fut, pend)
         IN  IF a.found
             THEN activate_all_reversed(Tail(ids), round, a.future, a.pending,
                                        a.receipt \o acc)
             ELSE [ ok |-> FALSE, future |-> a.future, pending |-> a.pending,
                    new_receipts |-> acc ]

(* The map(...).collect() of execute_receipt: the ids are activated in     *)
(* order; the first failed activation panics with the earlier ones done.   *)
RECURSIVE activate_all(_, _, _, _, _)
activate_all(ids, round, fut, pend, acc) ==
    IF ids = << >>
    THEN [ ok |-> TRUE, future |-> fut, pending |-> pend, new_receipts |-> acc ]
    ELSE LET a == activate_receipt(Head(ids), round, fut, pend)
         IN  IF a.found
             THEN activate_all(Tail(ids), round, a.future, a.pending,
                               acc \o a.receipt)
             ELSE [ ok |-> FALSE, future |-> a.future, pending |-> a.pending,
                    new_receipts |-> acc ]

(* How often each id was handed out by activate_receipt in one call. *)
count_activations(new_receipts) ==
    [ id \in ReceiptIds |->
        activated[id] + Cardinality({ k \in DOMAIN new_receipts : new_receipts[k].id = id }) ]

Call(op, receipt, round, outcome, gas, new_receipts) ==
    [ op |-> op, receipt |-> receipt, round |-> round, outcome |-> outcome,
      gas_burnt |-> gas, new_receipts |-> new_receipts ]

(* start with unwrap_or_default in place of expect: a failed activation    *)
(* is ignored and the initial receipt is recorded as pending again.        *)
start_no_expect(round, keep) ==
    LET a == activate_receipt(initial_receipt, round, future_receipts, pending_receipts)
    IN  /\ future_receipts' = a.future
        /\ UNCHANGED << dropped_receipts, executed_receipts, outgoing, dependencies, used >>
        /\ activated' = count_activations(a.receipt)
        /\ pending_receipts' = a.pending \cup { initial_receipt }
        /\ last' = Call("start", << >>, round, "ok", tx_conversion_cost, a.receipt)
        /\ queue' = keep \cup SeqToSet(a.receipt)
        /\ aborted' = FALSE

(* start reporting the gas attached to the first receipt as the gas burnt. *)
start_attached_gas(round, keep) ==
    LET a == activate_receipt(initial_receipt, round, future_receipts, pending_receipts)
    IN  /\ future_receipts' = a.future
        /\ UNCHANGED << dropped_receipts, executed_receipts, outgoing, dependencies, used >>
        /\ activated' = count_activations(a.receipt)
        /\ IF a.found
           THEN /\ pending_receipts' = a.pending \cup { initial_receipt }
                /\ last' = Call("start", << >>, round, "ok", initial_receipt_gas, a.receipt)
                /\ queue' = keep \cup SeqToSet(a.receipt)
                /\ aborted' = FALSE
           ELSE /\ pending_receipts' = a.pending
                /\ last' = Call("start", << >>, round, "panic", 0, << >>)
                /\ queue' = keep
                /\ aborted' = TRUE

(* Transaction::start.  `keep` is what the driver keeps of its queue. *)
start(round, keep) ==
    LET a == activate_receipt(initial_receipt, round, future_receipts, pending_receipts)
    IN  /\ future_receipts' = a.future
        /\ UNCHANGED << dropped_receipts, executed_receipts, outgoing, dependencies, used >>
        /\ activated' = count_activations(a.receipt)
        /\ IF a.found
           THEN /\ pending_receipts' = a.pending \cup { initial_receipt }
                /\ last' = Call("start", << >>, round, "ok", tx_conversion_cost, a.receipt)
                /\ queue' = keep \cup SeqToSet(a.receipt)
                /\ aborted' = FALSE
           ELSE /\ pending_receipts' = a.pending
                /\ last' = Call("start", << >>, round, "panic", 0, << >>)
                /\ queue' = keep
                /\ aborted' = TRUE

(* execute_receipt reading the gas through gas_burnt() before executed_at  *)
(* is stamped.                                                             *)
execute_receipt_gas_unstamped(receipt, round, keep) ==
    IF ~ contains_key(outgoing, receipt.id)
    THEN /\ UNCHANGED << buckets, outgoing, dependencies, activated >>
         /\ last' = Call("execute_receipt", << receipt >>, round, "panic", 0, << >>)
         /\ queue' = keep
         /\ used' = used \cup { receipt }
         /\ aborted' = TRUE
    ELSE LET outgoing_ids == outgoing[receipt.id]
             all == activate_all(outgoing_ids, round, future_receipts,
                                 pending_receipts, << >>)
             executed == [ receipt EXCEPT !.executed_at = Some(round) ]
         IN  /\ future_receipts' = all.future
             /\ UNCHANGED << dropped_receipts, outgoing, dependencies >>
             /\ activated' = count_activations(all.new_receipts)
             /\ used' = used \cup { receipt }
             /\ IF all.ok
                THEN /\ pending_receipts' = all.pending \ { receipt.id }
                     /\ executed_receipts' =
                            map_insert(executed_receipts, receipt.id, executed)
                     /\ last' = Call("execute_receipt", << receipt >>, round, "ok",
                                     gas_burnt(receipt), all.new_receipts)
                     /\ queue' = keep \cup SeqToSet(all.new_receipts)
                     /\ aborted' = FALSE
                ELSE /\ pending_receipts' = all.pending
                     /\ UNCHANGED executed_receipts
                     /\ last' = Call("execute_receipt", << receipt >>, round, "panic",
                                     0, << >>)
                     /\ queue' = keep
                     /\ aborted' = TRUE

(* execute_receipt taking a missing outgoing entry for an empty list.      *)
execute_receipt_or_default(receipt, round, keep) ==
    LET outgoing_ids == IF contains_key(outgoing, receipt.id)
                        THEN outgoing[receipt.id] ELSE << >>
        all == activate_all(outgoing_ids, round, future_receipts,
                            pending_receipts, << >>)
        executed == [ receipt EXCEPT !.executed_at = Some(round) ]
    IN  /\ future_receipts' = all.future
        /\ UNCHANGED << dropped_receipts, outgoing, dependencies >>
        /\ activated' = count_activations(all.new_receipts)
        /\ used' = used \cup { receipt }
        /\ IF all.ok
           THEN /\ pending_receipts' = all.pending \ { receipt.id }
                /\ executed_receipts' =
                       map_insert(executed_receipts, receipt.id, executed)
                /\ last' = Call("execute_receipt", << receipt >>, round, "ok",
                                receipt.execution_gas, all.new_receipts)
                /\ queue' = keep \cup SeqToSet(all.new_receipts)
                /\ aborted' = FALSE
           ELSE /\ pending_receipts' = all.pending
                /\ UNCHANGED executed_receipts
                /\ last' = Call("execute_receipt", << receipt >>, round, "panic",
                                0, << >>)
                /\ queue' = keep
                /\ aborted' = TRUE

(* Transaction::execute_receipt.  The index outgoing[&receipt.id] panics   *)
(* when the map has no entry for the id.                                   *)
execute_receipt(receipt, round, keep) ==
    IF ~ contains_key(outgoing, receipt.id)
    THEN /\ UNCHANGED << buckets, outgoing, dependencies, activated >>
         /\ last' = Call("execute_receipt", << receipt >>, round, "panic", 0, << >>)
         /\ queue' = keep
         /\ used' = used \cup { receipt }
         /\ aborted' = TRUE
    ELSE LET outgoing_ids == outgoing[receipt.id]
             all == activate_all(outgoing_ids, round, future_receipts,
                                 pending_receipts, << >>)
             executed == [ receipt EXCEPT !.executed_at = Some(round) ]
         IN  /\ future_receipts' = all.future
             /\ UNCHANGED << dropped_receipts, outgoing, dependencies >>
             /\ activated' = count_activations(all.new_receipts)
             /\ used' = used \cup { receipt }
             /\ IF all.ok
                THEN /\ pending_receipts' = all.pending \ { receipt.id }
                     /\ executed_receipts' =
                            map_insert(executed_receipts, receipt.id, executed)
                     /\ last' = Call("execute_receipt", << receipt >>, round, "ok",
                                     receipt.execution_gas, all.new_receipts)
                     /\ queue' = keep \cup SeqToSet(all.new_receipts)
                     /\ aborted' = FALSE
                ELSE /\ pending_receipts' = all.pending
                     /\ UNCHANGED executed_receipts
                     /\ last' = Call("execute_receipt", << receipt >>, round, "panic",
                                     0, << >>)
                     /\ queue' = keep
                     /\ aborted' = TRUE

(* drop_receipt also forgetting the edges of the dropped receipt. *)
drop_receipt_forgets_edges(receipt, round, keep) ==
    LET dropped == [ receipt EXCEPT !.dropped_at = Some(round) ]
    IN  /\ pending_receipts' = pending_receipts \ { receipt.id }
        /\ dropped_receipts' = map_insert(dropped_receipts, receipt.id, dropped)
        /\ outgoing' = map_remove(outgoing, receipt.id)
        /\ UNCHANGED << future_receipts, executed_receipts, dependencies, activated,
                        aborted >>
        /\ last' = Call("drop_receipt", << receipt >>, round, "ok", 0, << >>)
        /\ queue' = keep
        /\ used' = used \cup { receipt }

(* drop_receipt without the removal from pending_receipts. *)
drop_receipt_keeps_pending(receipt, round, keep) ==
    LET dropped == [ receipt EXCEPT !.dropped_at = Some(round) ]
    IN  /\ dropped_receipts' = map_insert(dropped_receipts, receipt.id, dropped)
        /\ UNCHANGED << future_receipts, pending_receipts, executed_receipts, outgoing,
                        dependencies, activated, aborted >>
        /\ last' = Call("drop_receipt", << receipt >>, round, "ok", 0, << >>)
        /\ queue' = keep
        /\ used' = used \cup { receipt }

(* drop_receipt stamping executed_at, as execute_receipt does. *)
drop_receipt_stamps_executed(receipt, round, keep) ==
    LET dropped == [ receipt EXCEPT !.executed_at = Some(round) ]
    IN  /\ pending_receipts' = pending_receipts \ { receipt.id }
        /\ dropped_receipts' = map_insert(dropped_receipts, receipt.id, dropped)
        /\ UNCHANGED << future_receipts, executed_receipts, outgoing, dependencies,
                        activated, aborted >>
        /\ last' = Call("drop_receipt", << receipt >>, round, "ok", 0, << >>)
        /\ queue' = keep
        /\ used' = used \cup { receipt }

(* Transaction::drop_receipt *)
drop_receipt(receipt, round, keep) ==
    LET dropped == [ receipt EXCEPT !.dropped_at = Some(round) ]
    IN  /\ pending_receipts' = pending_receipts \ { receipt.id }
        /\ dropped_receipts' = map_insert(dropped_receipts, receipt.id, dropped)
        /\ UNCHANGED << future_receipts, executed_receipts, outgoing, dependencies,
                        activated, aborted >>
        /\ last' = Call("drop_receipt", << receipt >>, round, "ok", 0, << >>)
        /\ queue' = keep
        /\ used' = used \cup { receipt }

(* Transaction::activate_receipt called on the transaction itself. *)
activate(receipt_id, round) ==
    LET a == activate_receipt(receipt_id, round, future_receipts, pending_receipts)
    IN  /\ future_receipts' = a.future
        /\ pending_receipts' = a.pending
        /\ UNCHANGED << dropped_receipts, executed_receipts, outgoing, dependencies,
                        used, aborted >>
        /\ activated' = count_activations(a.receipt)
        /\ queue' = queue \cup SeqToSet(a.receipt)
        /\ last' = [ op |-> "activate_receipt", receipt |-> << >>, round |-> round,
                     outcome |-> IF a.found THEN "ok" ELSE "not_found",
                     gas_burnt |-> 0, new_receipts |-> a.receipt, id |-> receipt_id ]

(* Transaction::initial_receipt_receiver and Transaction::initial_receipt_gas: *)
(* the value of the field is returned and nothing is written.              *)
initial_receipt_receiver == receiver_of(initial_receipt)

read_field(name, value) ==
    /\ UNCHANGED << buckets, outgoing, dependencies, queue, used, activated, aborted >>
    /\ last' = [ op |-> name, receipt |-> << >>, round |-> 0, outcome |-> "ok",
                 gas_burnt |-> 0, new_receipts |-> << >>, value |-> value ]

----------------------------------------------------------------------------
(* Construction.  The edge maps are given whole and every receipt is in    *)
(* future_receipts before the first call.  Edges lead from a receipt to    *)
(* receipts with a larger id (no cycle); a list holds at most two ids,     *)
(* possibly the same id twice, an id may be listed under several           *)
(* producers, and a receipt may have no entry in outgoing at all.  Only    *)
(* receipts reachable from initial_receipt have an entry.                  *)

Successors(i) == { j \in ReceiptIds : j > i /\ j <= i + 2 }

OutgoingLists(i) ==
    { << >> } \cup { << a >> : a \in Successors(i) }
              \cup { << a, b >> : a \in Successors(i), b \in Successors(i) }

OutgoingMaps ==
    UNION { [ D -> UNION { OutgoingLists(i) : i \in D } ] : D \in SUBSET ReceiptIds }

(* The receipts reachable from those of S along the edges of m, S          *)
(* included; ids are visited in increasing order, as edges only go up.     *)
RECURSIVE reach_from(_, _, _)
reach_from(m, S, i) ==
    IF i >= NumReceipts THEN S
    ELSE reach_from(m,
                    IF i \in S /\ i \in DOMAIN m THEN S \cup SeqToSet(m[i]) ELSE S,
                    i + 1)

Reachable(m, x) == reach_from(m, { x }, 0)

IsOutgoing(m) ==
    /\ \A i \in DOMAIN m : m[i] \in OutgoingLists(i)
    /\ DOMAIN m \subseteq Reachable(m, initial_receipt)

(* Every receipt id is listed at most once over all the lists of m, and    *)
(* every receipt reachable from initial_receipt has an entry.              *)
listings(m, j) ==
    UNION { { << i, k >> : k \in { n \in DOMAIN m[i] : m[i][n] = j } } : i \in DOMAIN m }

DefinedOnce(m) ==
    /\ \A j \in ReceiptIds : Cardinality(listings(m, j)) <= 1
    /\ Reachable(m, initial_receipt) \subseteq DOMAIN m

(* The reverse index of an edge map: receipt -> its producers, in id order *)
(* and once per listing.                                                   *)
RECURSIVE producer_list(_, _, _)
producer_list(m, j, i) ==
    IF i >= NumReceipts THEN << >>
    ELSE (IF i \in DOMAIN m
          THEN [ k \in 1 .. Len(SelectSeq(m[i], LAMBDA c : c = j)) |-> i ]
          ELSE << >>) \o producer_list(m, j, i + 1)

reverse_index(m) ==
    LET targets == UNION { SeqToSet(m[i]) : i \in DOMAIN m }
    IN  [ j \in targets |-> producer_list(m, j, 0) ]

NoCall == Call("none", << >>, 0, "ok", 0, << >>)

Construct(m) ==
    /\ outgoing = m
    /\ dependencies = reverse_index(m)
    /\ future_receipts =
         [ id \in ReceiptIds |->
             new_future_receipt(id, receiver_of(id), size_of(id),
                                attached_gas_of(id), execution_gas_of(id)) ]
    /\ pending_receipts = {}
    /\ dropped_receipts = EmptyMap
    /\ executed_receipts = EmptyMap
    /\ queue = {}
    /\ used = {}
    /\ activated = [ id \in ReceiptIds |-> 0 ]
    /\ last = NoCall
    /\ aborted = FALSE
    /\ broken = FALSE
    /\ gas_total = 0

Init == \E m \in { x \in OutgoingMaps : IsOutgoing(x) } : Construct(m)

----------------------------------------------------------------------------
(* The driver obeying the contract: start once, then pass back each        *)
(* receipt it holds exactly once, to execute_receipt or to drop_receipt.   *)
(* A panic ends the run.                                                   *)

Started == last.op # "none"
Running == ~ aborted /\ ~ broken

DriverStart ==
    /\ Running
    /\ ~ Started
    /\ \E round \in Rounds : start(round, queue)
    /\ UNCHANGED broken
    /\ gas_total' = gas_total + last'.gas_burnt

DriverExecute ==
    /\ Running
    /\ \E receipt \in queue, round \in Rounds :
          execute_receipt(receipt, round, queue \ { receipt })
    /\ UNCHANGED broken
    /\ gas_total' = gas_total + last'.gas_burnt

DriverDrop ==
    /\ Running
    /\ \E receipt \in queue, round \in Rounds :
          drop_receipt(receipt, round, queue \ { receipt })
    /\ UNCHANGED broken
    /\ gas_total' = gas_total + last'.gas_burnt

Next == DriverStart \/ DriverExecute \/ DriverDrop

Spec == Init /\ [][Next]_vars

----------------------------------------------------------------------------
(* The driver up to and including its first call that breaks the contract: *)
(* it starts again, passes back a copy of a receipt it has already passed  *)
(* back, or passes a receipt value the tracker never handed out (built     *)
(* with new_future_receipt for an id that is still in future_receipts),    *)
(* or calls activate_receipt itself, for an id of the transaction or for   *)
(* an id that is none of its receipts.  Reading the accessors after the    *)
(* start breaks nothing.  The edge maps define every receipt exactly once. *)

InitDefinedOnce ==
    \E m \in { x \in OutgoingMaps : IsOutgoing(x) /\ DefinedOnce(x) } : Construct(m)

DriverStartAgain ==
    /\ Running
    /\ Started
    /\ \E round \in Rounds : start(round, queue)
    /\ broken' = TRUE
    /\ gas_total' = gas_total + last'.gas_burnt

DriverExecuteAgain ==
    /\ Running
    /\ \E receipt \in used, round \in Rounds :
          execute_receipt(receipt, round, queue)
    /\ broken' = TRUE
    /\ gas_total' = gas_total + last'.gas_burnt

DriverDropAgain ==
    /\ Running
    /\ \E receipt \in used, round \in Rounds :
          drop_receipt(receipt, round, queue)
    /\ broken' = TRUE
    /\ gas_total' = gas_total + last'.gas_burnt

DriverExecuteUnissued ==
    /\ Running
    /\ \E receipt \in map_values(future_receipts), round \in Rounds :
          execute_receipt(receipt, round, queue)
    /\ broken' = TRUE
    /\ gas_total' = gas_total + last'.gas_burnt

DriverDropUnissued ==
    /\ Running
    /\ \E receipt \in map_values(future_receipts), round \in Rounds :
          drop_receipt(receipt, round, queue)
    /\ broken' = TRUE
    /\ gas_total' = gas_total + last'.gas_burnt

DriverActivate ==
    /\ Running
    /\ \E receipt_id \in 0 .. NumReceipts, round \in Rounds :
          activate(receipt_id, round)
    /\ broken' = TRUE
    /\ UNCHANGED gas_total

DriverRead ==
    /\ Running
    /\ Started
    /\ \/ read_field("initial_receipt_receiver", initial_receipt_receiver)
       \/ read_field("initial_receipt_gas", initial_receipt_gas)
    /\ UNCHANGED << broken, gas_total >>

NextMisuse ==
    \/ DriverStart
    \/ DriverExecute
    \/ DriverDrop
    \/ DriverStartAgain
    \/ DriverExecuteAgain
    \/ DriverDropAgain
    \/ DriverExecuteUnissued
    \/ DriverDropUnissued
    \/ DriverActivate
    \/ DriverRead

SpecMisuse == InitDefinedOnce /\ [][NextMisuse]_vars

----------------------------------------------------------------------------
(* Properties. *)

InFuture(id) == id \in DOMAIN future_receipts
InPending(id) == id \in pending_receipts
InDropped(id) == id \in DOMAIN dropped_receipts
InExecuted(id) == id \in DOMAIN executed_receipts

(* The buckets that hold a receipt id. *)
buckets_of(id) ==
    (IF InFuture(id) THEN { "future" } ELSE {}) \cup
    (IF InPending(id) THEN { "pending" } ELSE {}) \cup
    (IF InDropped(id) THEN { "dropped" } ELSE {}) \cup
    (IF InExecuted(id) THEN { "executed" } ELSE {})

(* The receipt of an id as construction put it in future_receipts. *)
fresh(id) ==
    new_future_receipt(id, receiver_of(id), size_of(id),
                       attached_gas_of(id), execution_gas_of(id))

LastOk(op) == last.op = op /\ last.outcome = "ok"

(* C1: with a driver that starts at most once and passes back only pending *)
(* receipts, each once, every receipt id is in exactly one of the four     *)
(* buckets and the four sizes add up to the number of receipts populated   *)
(* at construction.                                                        *)
C1_ExactlyOneBucket ==
    /\ \A id \in ReceiptIds : Cardinality(buckets_of(id)) = 1
    /\ Cardinality(DOMAIN future_receipts) + Cardinality(pending_receipts)
         + Cardinality(DOMAIN dropped_receipts)
         + Cardinality(DOMAIN executed_receipts) = NumReceipts

C1_Witness ==
    /\ pending_receipts # {}
    /\ DOMAIN dropped_receipts # {}
    /\ DOMAIN executed_receipts # {}

(* One step of C2, for every receipt id. *)
C2_Step ==
    \A id \in ReceiptIds :
        /\ ~ InFuture(id) => ~ InFuture(id)'
        /\ (activated[id] > 0 /\ ~ InPending(id)) => ~ InPending(id)'
        /\ InExecuted(id) => InExecuted(id)'
        /\ InDropped(id) => InDropped(id)'
        /\ << buckets_of(id), buckets_of(id)' >> \in
             { << { "future" }, { "future" } >>,
               << { "future" }, { "pending" } >>,
               << { "pending" }, { "pending" } >>,
               << { "pending" }, { "executed" } >>,
               << { "pending" }, { "dropped" } >>,
               << { "executed" }, { "executed" } >>,
               << { "dropped" }, { "dropped" } >> }

(* C2: across every step, an id that is not in future_receipts does not    *)
(* enter it, an id that was activated and is not in pending_receipts does  *)
(* not enter it again, an id in executed_receipts or dropped_receipts      *)
(* stays there, and the only moves are future -> pending and               *)
(* pending -> executed or dropped.                                         *)
C2_MonotoneBuckets == [][C2_Step]_vars

C2_Witness ==
    /\ \E id \in ReceiptIds : InDropped(id) /\ activated[id] = 1
    /\ \E id \in ReceiptIds : InExecuted(id) /\ id # initial_receipt
    /\ LastOk("execute_receipt")

(* C3: the start of a freshly constructed transaction returns              *)
(* tx_conversion_cost and exactly the initial receipt, created at the      *)
(* round of the call; the initial receipt is then pending and no longer    *)
(* future, and every other receipt is where construction put it.           *)
C3_StartResult ==
    last.op = "start" =>
        /\ last.outcome = "ok"
        /\ last.gas_burnt = tx_conversion_cost
        /\ last.new_receipts =
             << [ fresh(initial_receipt) EXCEPT !.created_at = Some(last.round) ] >>
        /\ InPending(initial_receipt)
        /\ ~ InFuture(initial_receipt)
        /\ pending_receipts = { initial_receipt }
        /\ \A id \in ReceiptIds \ { initial_receipt } :
              InFuture(id) /\ future_receipts[id] = fresh(id)
        /\ dropped_receipts = EmptyMap
        /\ executed_receipts = EmptyMap

C3_Witness == LastOk("start") /\ last.round = MaxRound /\ NumReceipts > 1

(* One step of C4: a completed execute_receipt. *)
C4_Step ==
    (last'.op = "execute_receipt" /\ last'.outcome = "ok") =>
        LET x == last'.receipt[1]
            r == last'.round
            ids == outgoing[x.id]
        IN  /\ InPending(x.id)
            /\ x.id \notin pending_receipts'
            /\ x.id \in DOMAIN executed_receipts'
            /\ executed_receipts'[x.id] = [ x EXCEPT !.executed_at = Some(r) ]
            /\ last'.gas_burnt = x.execution_gas
            /\ Len(last'.new_receipts) = Len(ids)
            /\ \A k \in DOMAIN ids :
                  /\ InFuture(ids[k])
                  /\ ids[k] \notin DOMAIN future_receipts'
                  /\ ids[k] \in pending_receipts'
                  /\ last'.new_receipts[k] =
                        [ future_receipts[ids[k]] EXCEPT !.created_at = Some(r) ]
            /\ DOMAIN future_receipts' = DOMAIN future_receipts \ SeqToSet(ids)
            /\ pending_receipts' = (pending_receipts \ { x.id }) \cup SeqToSet(ids)

(* C4: a completed execute_receipt(x, r) on a pending x takes x.id out of  *)
(* pending_receipts and stores x in executed_receipts with executed_at r;  *)
(* it moves the ids of outgoing[x.id] from future_receipts to              *)
(* pending_receipts, returns them in the order of outgoing[x.id] with      *)
(* created_at r, and returns x.execution_gas as the gas burnt.             *)
C4_ExecuteResult == [][C4_Step]_vars

C4_Witness ==
    /\ LastOk("execute_receipt")
    /\ Len(last.new_receipts) = 2
    /\ last.new_receipts[1].id > last.new_receipts[2].id
    /\ last.receipt[1].created_at # Some(last.round)

(* One step of C5: a drop_receipt. *)
C5_Step ==
    last'.op = "drop_receipt" =>
        LET x == last'.receipt[1]
            r == last'.round
        IN  /\ InPending(x.id)
            /\ pending_receipts' = pending_receipts \ { x.id }
            /\ x.id \in DOMAIN dropped_receipts'
            /\ dropped_receipts'[x.id] = [ x EXCEPT !.dropped_at = Some(r) ]
            /\ dropped_receipts'[x.id].executed_at = None
            /\ \A id \in DOMAIN dropped_receipts :
                  dropped_receipts'[id] = dropped_receipts[id]
            /\ future_receipts' = future_receipts
            /\ executed_receipts' = executed_receipts
            /\ last'.outcome = "ok"
            /\ last'.gas_burnt = 0
            /\ last'.new_receipts = << >>

(* C5: drop_receipt(x, r) on a pending x takes x.id out of                 *)
(* pending_receipts and stores x in dropped_receipts with dropped_at r and *)
(* executed_at None; future_receipts, executed_receipts and the other      *)
(* pending ids are unchanged, so no id of outgoing[x.id] is activated.     *)
C5_DropFrame == [][C5_Step]_vars

C5_Witness ==
    /\ last.op = "drop_receipt"
    /\ last.receipt[1].id \in DOMAIN outgoing
    /\ outgoing[last.receipt[1].id] # << >>
    /\ last.receipt[1].created_at # Some(last.round)

(* The receipts reachable from x along outgoing edges, x excluded. *)
Descendants(x) == Reachable(outgoing, x) \ { x }

(* One step of C6, for every dropped receipt. *)
C6_Step ==
    \A x \in DOMAIN dropped_receipts :
        \A y \in Descendants(x) : InFuture(y) => InFuture(y)'

(* C6: once x is dropped, every receipt reachable from x that is in        *)
(* future_receipts stays in future_receipts, whatever call comes next.     *)
C6_DroppedBranchStays == [][C6_Step]_vars

(* One step of C7: a start after the first. *)
C7_Step ==
    (Started /\ last'.op = "start") =>
        /\ last'.outcome = "panic"
        /\ aborted'
        /\ buckets' = buckets

(* C7: a start after the first start panics and leaves the four buckets    *)
(* as they were.                                                           *)
C7_SecondStartAborts == [][C7_Step]_vars

C7_Witness ==
    /\ last.op = "start"
    /\ last.outcome = "panic"
    /\ DOMAIN executed_receipts # {}
    /\ DOMAIN dropped_receipts # {}

(* One step of C8: execute_receipt on a resolved receipt. *)
C8_Step ==
    LET x == last'.receipt[1]
    IN  (/\ last'.op = "execute_receipt"
         /\ (x.id \in DOMAIN executed_receipts \/ x.id \in DOMAIN dropped_receipts))
        => last'.outcome = "panic"

(* C8: execute_receipt on a receipt whose id is already in                 *)
(* executed_receipts or dropped_receipts panics.                           *)
C8_ReexecuteAborts == [][C8_Step]_vars

(* One step of C9. *)
C9_Step ==
    LET x == last'.receipt[1]
    IN  /\ (/\ last'.op = "execute_receipt"
            /\ x.id \in DOMAIN outgoing
            /\ \E k \in DOMAIN outgoing[x.id] :
                  \/ ~ InFuture(outgoing[x.id][k])
                  \/ \E j \in 1 .. (k - 1) : outgoing[x.id][j] = outgoing[x.id][k])
           => (last'.outcome = "panic" /\ aborted')
        /\ \A id \in ReceiptIds : activated'[id] <= 1

(* C9: execute_receipt panics whenever an id of outgoing[x.id] is not in   *)
(* future_receipts when its turn comes (it was activated before the call,  *)
(* or it is listed earlier in the same list), and no receipt id is ever    *)
(* activated more than once.                                               *)
C9_ActivatedAtMostOnce == [][C9_Step]_vars

C9_Witness ==
    /\ last.op = "execute_receipt"
    /\ last.outcome = "panic"
    /\ last.receipt[1].id \in DOMAIN outgoing
    /\ \E id \in ReceiptIds : activated[id] = 1 /\ id # initial_receipt

(* The state part of C10. *)
C10_Inv ==
    /\ \A r \in map_values(future_receipts) \cup map_values(dropped_receipts)
                 \cup map_values(executed_receipts) :
          ~ (is_some(r.dropped_at) /\ is_some(r.executed_at))
    /\ \A r \in map_values(executed_receipts) :
          is_some(r.created_at) /\ is_some(r.executed_at) /\ r.dropped_at = None
    /\ \A r \in map_values(dropped_receipts) :
          is_some(r.created_at) /\ is_some(r.dropped_at) /\ r.executed_at = None
    /\ \A r \in map_values(future_receipts) :
          r.created_at = None /\ r.dropped_at = None /\ r.executed_at = None

(* The step part of C10. *)
C10_Step ==
    /\ \A id \in DOMAIN executed_receipts :
          /\ id \in DOMAIN executed_receipts'
          /\ executed_receipts'[id] = executed_receipts[id]
    /\ \A id \in DOMAIN dropped_receipts :
          /\ id \in DOMAIN dropped_receipts'
          /\ dropped_receipts'[id] = dropped_receipts[id]
    /\ \A r \in queue :
          /\ r.id \in DOMAIN executed_receipts' =>
                executed_receipts'[r.id].created_at = r.created_at
          /\ r.id \in DOMAIN dropped_receipts' =>
                dropped_receipts'[r.id].created_at = r.created_at

(* C10: a stored receipt never has both dropped_at and executed_at; an     *)
(* executed one has created_at and executed_at and no dropped_at, a        *)
(* dropped one has created_at and dropped_at and no executed_at, a future  *)
(* one has none of the three; and a stamp, once set, is not changed.       *)
C10_StampsSetOnce == []C10_Inv /\ [][C10_Step]_vars

C10_Witness ==
    /\ \E r \in map_values(executed_receipts) :
          r.created_at # r.executed_at /\ r.id # initial_receipt
    /\ \E r \in map_values(dropped_receipts) : r.created_at # r.dropped_at

(* One step of C11: a call of activate_receipt(id, r). *)
C11_Step ==
    last'.op = "activate_receipt" =>
        LET id == last'.id
            r == last'.round
        IN  /\ (last'.outcome = "ok") <=> InFuture(id)
            /\ InFuture(id) =>
                  /\ DOMAIN future_receipts' = DOMAIN future_receipts \ { id }
                  /\ \A k \in DOMAIN future_receipts' :
                        future_receipts'[k] = future_receipts[k]
                  /\ pending_receipts' = pending_receipts \cup { id }
                  /\ last'.new_receipts =
                        << [ future_receipts[id] EXCEPT !.created_at = Some(r) ] >>
            /\ ~ InFuture(id) =>
                  /\ future_receipts' = future_receipts
                  /\ pending_receipts' = pending_receipts
                  /\ last'.outcome = "not_found"
                  /\ last'.new_receipts = << >>
            /\ dropped_receipts' = dropped_receipts
            /\ executed_receipts' = executed_receipts

(* C11: activate_receipt(id, r) succeeds exactly when id is in             *)
(* future_receipts; it then takes id out of future_receipts, puts it in    *)
(* pending_receipts and returns the receipt with created_at r, and         *)
(* otherwise returns not-found; nothing else in the four buckets changes.  *)
C11_ActivateReceipt == [][C11_Step]_vars

C11_Witness ==
    /\ last.op = "activate_receipt"
    /\ last.outcome = "not_found"
    /\ last.id \in pending_receipts
    /\ DOMAIN executed_receipts # {}

(* C12: gas_burnt() is 0 for a receipt with executed_at None and           *)
(* execution_gas for one with executed_at set; so it is 0 for every        *)
(* receipt in future_receipts and dropped_receipts and for every pending   *)
(* receipt the driver holds, and the execution gas of the receipt for      *)
(* every receipt in executed_receipts.                                     *)
C12_GasBurnt ==
    /\ \A r \in map_values(future_receipts) \cup map_values(dropped_receipts)
                 \cup map_values(executed_receipts) \cup queue :
          /\ r.executed_at = None => gas_burnt(r) = 0
          /\ r.executed_at # None => gas_burnt(r) = execution_gas_of(r.id)
    /\ \A r \in map_values(future_receipts) \cup map_values(dropped_receipts)
                 \cup queue :
          gas_burnt(r) = 0
    /\ \A r \in map_values(executed_receipts) :
          gas_burnt(r) = execution_gas_of(r.id) /\ gas_burnt(r) > 0

C12_Witness ==
    /\ DOMAIN executed_receipts # {}
    /\ DOMAIN dropped_receipts # {}
    /\ DOMAIN future_receipts # {}
    /\ queue = {}

----------------------------------------------------------------------------
(* The contract-obeying driver under fairness: it does start the           *)
(* transaction, and as long as it holds a pending receipt it does pass one *)
(* back, to execute_receipt or to drop_receipt.                            *)

FairSpec ==
    /\ Init
    /\ [][Next]_vars
    /\ WF_vars(DriverStart)
    /\ WF_vars(DriverExecute \/ DriverDrop)

Quiescent == pending_receipts = {}

FullyExecuted ==
    \A id \in Reachable(outgoing, initial_receipt) : InExecuted(id) /\ ~ InFuture(id)

NothingDropped == dropped_receipts = EmptyMap

(* C13: under the fair driver, a run that is not ended by a panic reaches  *)
(* a state from which pending_receipts is empty for ever; and if moreover  *)
(* no receipt is ever dropped, it reaches a state from which every receipt *)
(* reachable from initial_receipt along outgoing is in executed_receipts   *)
(* and none of them is in future_receipts.                                 *)
C13_Progress ==
    /\ <>aborted \/ <>[]Quiescent
    /\ []NothingDropped => (<>aborted \/ <>[](Quiescent /\ FullyExecuted))

C13_Witness ==
    /\ Started
    /\ ~ aborted
    /\ Quiescent
    /\ NothingDropped
    /\ FullyExecuted
    /\ Cardinality(DOMAIN executed_receipts) = NumReceipts

(* One step of C14: the call leaves outgoing and dependencies as they were. *)
C14_Step == outgoing' = outgoing /\ dependencies' = dependencies

C14_ReverseIndex == dependencies = reverse_index(outgoing)

(* C14: no operation (start, execute_receipt, drop_receipt,                *)
(* activate_receipt, the accessors) changes outgoing or dependencies, and  *)
(* dependencies, the reverse index of outgoing at construction, is the     *)
(* reverse index of outgoing in every reachable state.                     *)
C14_EdgesFixed == [][C14_Step]_vars /\ []C14_ReverseIndex

C14_Witness ==
    /\ DOMAIN executed_receipts # {}
    /\ DOMAIN dropped_receipts # {}
    /\ broken
    /\ Cardinality(DOMAIN outgoing) >= 2
    /\ DOMAIN dependencies # {}

(* One step of C15: an execute_receipt that panics while activating the    *)
(* ids of outgoing[x.id].                                                  *)
C15_Step ==
    LET x == last'.receipt[1]
    IN  (/\ last'.op = "execute_receipt"
         /\ last'.outcome = "panic"
         /\ x.id \in DOMAIN outgoing)
        => /\ future_receipts' = future_receipts
           /\ pending_receipts' = pending_receipts
           /\ dropped_receipts' = dropped_receipts
           /\ executed_receipts' = executed_receipts

(* C15: whenever execute_receipt panics because an id of outgoing[x.id]    *)
(* cannot be activated, future_receipts, pending_receipts,                 *)
(* dropped_receipts and executed_receipts are what they were before the    *)
(* call; the ids listed before the failing one have not moved from future  *)
(* to pending.                                                             *)
C15_AbortNoPartialEffect == [][C15_Step]_vars

(* One step of C16: after a drop_receipt call the id of its receipt is in  *)
(* exactly one bucket.                                                     *)
C16_Step ==
    LET x == last'.receipt[1]
        holding == { b \in { "future", "pending", "dropped", "executed" } :
                       \/ b = "future" /\ x.id \in DOMAIN future_receipts'
                       \/ b = "pending" /\ x.id \in pending_receipts'
                       \/ b = "dropped" /\ x.id \in DOMAIN dropped_receipts'
                       \/ b = "executed" /\ x.id \in DOMAIN executed_receipts' }
    IN  last'.op = "drop_receipt" => Cardinality(holding) = 1

(* C16: after any drop_receipt(x, r) call, one on a receipt that is not    *)
(* pending (already executed, already dropped, still in future_receipts)   *)
(* included, x.id is in exactly one of future_receipts, pending_receipts,  *)
(* dropped_receipts and executed_receipts.                                 *)
C16_DropOneBucket == [][C16_Step]_vars

(* The created_at stamp of an activated receipt: read from the stored      *)
(* record once it is resolved, and from the value the driver holds while   *)
(* it is pending (pending_receipts keeps only the id).                     *)
created_at_of(id) ==
    IF InExecuted(id) THEN { executed_receipts[id].created_at }
    ELSE IF InDropped(id) THEN { dropped_receipts[id].created_at }
    ELSE { r.created_at : r \in { q \in queue : q.id = id } }

Activated == pending_receipts \cup DOMAIN executed_receipts \cup DOMAIN dropped_receipts

Caused(id) ==
    \E p \in DOMAIN executed_receipts :
       /\ contains_key(outgoing, p)
       /\ id \in SeqToSet(outgoing[p])
       /\ created_at_of(id) = { executed_receipts[p].executed_at }

(* C17: in every state of a run in which the caller obeys the contract (no *)
(* call has panicked), every receipt id in pending_receipts,               *)
(* executed_receipts or dropped_receipts is initial_receipt or is listed   *)
(* in outgoing[p] for some p in executed_receipts whose executed_at is the *)
(* created_at of that receipt; and before start no receipt is pending or   *)
(* resolved.                                                               *)
C17_Causality ==
    ~ aborted =>
       /\ \A id \in Activated : id = initial_receipt \/ Caused(id)
       /\ ~ Started => Activated = {}

C17_Witness ==
    /\ ~ aborted
    /\ \E id \in pending_receipts \cup DOMAIN dropped_receipts : id # initial_receipt
    /\ \E id \in DOMAIN executed_receipts :
          id # initial_receipt /\ executed_receipts[id].created_at = Some(MaxRound)

(* The sum of execution_gas over the receipts stored under the ids of S.   *)
RECURSIVE sum_execution_gas(_)
sum_execution_gas(S) ==
    IF S = {} THEN 0
    ELSE LET id == CHOOSE i \in S : TRUE
         IN  executed_receipts[id].execution_gas + sum_execution_gas(S \ { id })

(* C18: once start has been called, the sum of gas_burnt over the results  *)
(* returned so far by the calls of the contract-obeying driver is          *)
(* tx_conversion_cost plus the sum of execution_gas over the receipts in   *)
(* executed_receipts; a drop_receipt call adds nothing to it.              *)
C18_GasAccounting ==
    /\ Started =>
         gas_total = tx_conversion_cost + sum_execution_gas(DOMAIN executed_receipts)
    /\ ~ Started => gas_total = 0
    /\ last.op = "drop_receipt" => last.gas_burnt = 0

C18_Witness ==
    /\ Cardinality(DOMAIN executed_receipts) >= 2
    /\ DOMAIN dropped_receipts # {}
    /\ gas_total > tx_conversion_cost

----------------------------------------------------------------------------
(* The contract-obeying driver that passes non-decreasing rounds to its    *)
(* successive calls.                                                       *)

DriverStartOrdered == DriverStart /\ last'.round >= last.round

DriverExecuteOrdered == DriverExecute /\ last'.round >= last.round

DriverDropOrdered == DriverDrop /\ last'.round >= last.round

NextOrdered == DriverStartOrdered \/ DriverExecuteOrdered \/ DriverDropOrdered

SpecOrdered == Init /\ [][NextOrdered]_vars

stamped_in_order(first, second) ==
    /\ first # None
    /\ second # None
    /\ first[1] <= second[1]

(* C19: when the driver passes non-decreasing rounds, every receipt in     *)
(* executed_receipts has created_at <= executed_at, every receipt in       *)
(* dropped_receipts has created_at <= dropped_at, and every activated      *)
(* child has a created_at at or after the created_at of its producer.      *)
C19_RoundOrder ==
    /\ \A r \in map_values(executed_receipts) :
          stamped_in_order(r.created_at, r.executed_at)
    /\ \A r \in map_values(dropped_receipts) :
          stamped_in_order(r.created_at, r.dropped_at)
    /\ \A p \in DOMAIN executed_receipts :
          contains_key(outgoing, p) =>
             \A c \in SeqToSet(outgoing[p]) \cap Activated :
                \A created_at \in created_at_of(c) :
                   stamped_in_order(executed_receipts[p].created_at, created_at)

C19_Witness ==
    /\ \E r \in map_values(executed_receipts) :
          /\ r.created_at = Some(0)
          /\ r.executed_at = Some(MaxRound)
          /\ contains_key(outgoing, r.id)
          /\ \E c \in SeqToSet(outgoing[r.id]) : created_at_of(c) = { Some(MaxRound) }
    /\ \E r \in map_values(dropped_receipts) : r.dropped_at = Some(MaxRound)

(* One step of C20: execute_receipt on a receipt without an entry in       *)
(* outgoing, and on one whose entry is the empty list.                     *)
C20_Step ==
    LET x == last'.receipt[1]
    IN  last'.op = "execute_receipt" =>
          /\ ~ contains_key(outgoing, x.id) =>
                /\ last'.outcome = "panic"
                /\ aborted'
                /\ buckets' = buckets
          /\ (contains_key(outgoing, x.id) /\ outgoing[x.id] = << >>) =>
                /\ last'.outcome = "ok"
                /\ last'.new_receipts = << >>
                /\ x.id \in DOMAIN executed_receipts'

MissingEntry ==
    \E id \in Reachable(outgoing, initial_receipt) : ~ contains_key(outgoing, id)

(* C20: execute_receipt on a receipt whose id has no entry in outgoing     *)
(* panics before it changes any bucket, while on a leaf whose entry is the *)
(* empty list it succeeds with no new receipts; so a transaction in which  *)
(* a receipt reachable from initial_receipt has no entry is never executed *)
(* to completion.                                                          *)
C20_OutgoingEntryRequired ==
    /\ [][C20_Step]_vars
    /\ [](MissingEntry => ~ FullyExecuted)

C20_Witness ==
    /\ last.op = "execute_receipt"
    /\ last.outcome = "panic"
    /\ ~ contains_key(outgoing, last.receipt[1].id)
    /\ last.receipt[1].id \in pending_receipts
    /\ \E e \in DOMAIN executed_receipts :
          contains_key(outgoing, e) /\ outgoing[e] = << >>

====
